---------------------------- MODULE Spec2Model ----------------------------
(***************************************************************************)
(* State-machine model of the currency-swap session (hooks/useSwap.js), of  *)
(* the utilities it calls (utils/currency.js), of the price cache          *)
(* (services/priceService.js), of the token hook (hooks/useTokens.js) and   *)
(* of the solutions of problems 1 and 3.                                    *)
(*                                                                         *)
(* Amount strings are sequences of one-character strings, so that the      *)
(* input pattern, parseFloat and Number.prototype.toString are computed    *)
(* character by character.  Numbers are exact non-negative rationals       *)
(* [k, n, d]; token prices and typed amounts are chosen so that every      *)
(* product and quotient the session computes is exactly representable as   *)
(* an IEEE-754 double with a terminating decimal expansion of fewer than   *)
(* 16 digits, for which JavaScript's arithmetic and toString are exact.    *)
(***************************************************************************)
EXTENDS Integers, Sequences, FiniteSets, TLC

---------------------------------------------------------------------------
(* Bounds of the model *)

\* longest amount string the session is allowed to hold or to compute
MaxLen == 4
\* most swap commits whose 2000 ms delay may be pending at once
MaxCommits == 2
\* largest step, in ms, by which time advances in the debounce timing model
Quantum == 100
\* most calls of the debounced function between two of its executions
MaxBurst == 3
\* most price samples in one price feed
MaxSamples == 3
\* largest argument of sum_to_n
MaxN == 20
\* callers of getTokens that may have a call in flight at once
MaxCalls == 2
\* the step, in ms, by which the clock of the price cache advances
ClockStep == 15000
\* the latest time, in ms, the clock of the price cache reaches
MaxClock == 60000
\* largest numerator and denominator of a computed amount
MaxMagnitude == 100000000
\* most fetchTokens runs of one useTokens hook in flight at once
MaxRuns == 3
\* most balances in one wallet
MaxBalances == 3

(* Program constants *)

\* debounce((amount, rate) => ..., 300)
DebounceDelay == 300
\* await new Promise((resolve) => setTimeout(resolve, 2000))
SwapDelay == 2000
\* setInterval(() => {...}, 30000)
RefreshInterval == 30000
\* this.CACHE_DURATION = 30000
CACHE_DURATION == 30000

---------------------------------------------------------------------------
(* JavaScript numbers: [k |-> "num", n, d] is n/d in lowest terms,         *)
(* [k |-> "nan"] is NaN, [k |-> "null"] is null (exchangeRate only).       *)

RECURSIVE GCD(_, _)
GCD(a, b) == IF b = 0 THEN a ELSE GCD(b, a % b)

Abs(i) == IF i < 0 THEN -i ELSE i

Num(n, d) ==
    LET g == GCD(Abs(n), d)
    IN  [k |-> "num", n |-> n \div g, d |-> d \div g]

NaN == [k |-> "nan", n |-> 0, d |-> 0]
NullNum == [k |-> "null", n |-> 0, d |-> 0]
Zero == Num(0, 1)

IsNum(x) == x.k = "num"
Mul(a, b) == Num(a.n * b.n, a.d * b.d)
\* 1 / r for r > 0
Recip(r) == Num(r.d, r.n)
Leq(a, b) == a.n * b.d <= b.n * a.d

\* JavaScript truthiness of a number-or-null: null, 0 and NaN are falsy
TruthyNum(x) == IsNum(x) /\ x.n # 0

---------------------------------------------------------------------------
(* Strings *)

DigitChars == <<"0", "1", "2", "3", "4", "5", "6", "7", "8", "9">>
IsDigit(c) == \E i \in 1..10 : DigitChars[i] = c
DigitVal(c) == (CHOOSE i \in 1..10 : DigitChars[i] = c) - 1

RECURSIVE Pow10(_)
Pow10(e) == IF e = 0 THEN 1 ELSE 10 * Pow10(e - 1)

\* number of leading digits of s starting at index i
RECURSIVE DigitRun(_, _)
DigitRun(s, i) ==
    IF i <= Len(s) /\ IsDigit(s[i]) THEN 1 + DigitRun(s, i + 1) ELSE 0

\* value of the digit string s (0 for the empty string)
RECURSIVE DigitsVal(_)
DigitsVal(s) ==
    IF s = <<>> THEN 0
    ELSE 10 * DigitsVal(SubSeq(s, 1, Len(s) - 1)) + DigitVal(s[Len(s)])

\* the pattern without its end anchor: /^\d*\.?\d*/.test(s)
MatchesUnanchoredPattern(s) ==
    LET a == DigitRun(s, 1)
        dot == IF a + 1 <= Len(s) /\ s[a + 1] = "." THEN 1 ELSE 0
        b == DigitRun(s, a + dot + 1)
    IN  a + dot + b <= Len(s)

\* /^\d*\.?\d*$/.test(s)
MatchesDecimalPattern(s) ==
    LET a == DigitRun(s, 1)
        dot == IF a + 1 <= Len(s) /\ s[a + 1] = "." THEN 1 ELSE 0
        b == DigitRun(s, a + dot + 1)
    IN  a + dot + b = Len(s)

\* s.trim() for the whitespace the model knows (the space character)
RECURSIVE TrimLeft(_)
TrimLeft(s) == IF s # <<>> /\ s[1] = " " THEN TrimLeft(Tail(s)) ELSE s
RECURSIVE TrimRight(_)
TrimRight(s) ==
    IF s # <<>> /\ s[Len(s)] = " " THEN TrimRight(SubSeq(s, 1, Len(s) - 1)) ELSE s
Trim(s) == TrimRight(TrimLeft(s))

\* parseFloat(s): the longest prefix of the left-trimmed string that is a
\* decimal literal [sign] digits [. digits] [e [sign] digits]; NaN when there
\* is none.  The helpers take the positions found so far.
SignLen(s, p) == IF p <= Len(s) /\ s[p] \in {"-", "+"} THEN 1 ELSE 0
IsNeg(s, p) == p <= Len(s) /\ s[p] = "-"
HasDot(s, p) == p <= Len(s) /\ s[p] = "."
HasExp(s, p) == p <= Len(s) /\ s[p] \in {"e", "E"}

\* the value of the mantissa digits, scaled by the exponent ex
Scaled(neg, mn, md, eNeg, ex) ==
    IF eNeg THEN Num(IF neg THEN -mn ELSE mn, md * Pow10(ex))
    ELSE Num((IF neg THEN -mn ELSE mn) * Pow10(ex), md)

\* s: the string, sg: length of the sign, a, b: digits before and after the
\* dot, m: end of the mantissa, es: length of the exponent's sign, el: digits
\* of the exponent (0 when there is no complete exponent)
ParseValue(s, sg, a, b, m, es, el) ==
    Scaled(IsNeg(s, 1),
           DigitsVal(SubSeq(s, sg + 1, sg + a)) * Pow10(b)
             + DigitsVal(SubSeq(s, sg + a + 2, sg + a + 1 + b)),
           Pow10(b),
           IsNeg(s, m + 2),
           DigitsVal(SubSeq(s, m + 2 + es, m + 1 + es + el)))

ParseExponent(s, sg, a, b, m, es) ==
    ParseValue(s, sg, a, b, m, es,
               IF HasExp(s, m + 1) THEN DigitRun(s, m + 2 + es) ELSE 0)

ParseMantissa(s, sg, a, b) ==
    IF a + b = 0 THEN NaN
    ELSE ParseExponent(s, sg, a, b,
                       sg + a + (IF HasDot(s, sg + a + 1) THEN 1 + b ELSE 0),
                       IF HasExp(s, sg + a + (IF HasDot(s, sg + a + 1) THEN 1 + b ELSE 0) + 1)
                       THEN SignLen(s, sg + a + (IF HasDot(s, sg + a + 1) THEN 1 + b ELSE 0) + 2)
                       ELSE 0)

ParseDigits(s, sg, a) ==
    ParseMantissa(s, sg, a,
                  IF HasDot(s, sg + a + 1) THEN DigitRun(s, sg + a + 2) ELSE 0)

ParseSign(s, sg) == ParseDigits(s, sg, DigitRun(s, sg + 1))

ParseFloat(str) == ParseSign(TrimLeft(str), SignLen(TrimLeft(str), 1))

\* decimal digits of the natural number n ("0" for 0)
RECURSIVE NatToString(_)
NatToString(n) ==
    IF n < 10 THEN <<DigitChars[n + 1]>>
    ELSE NatToString(n \div 10) \o <<DigitChars[(n % 10) + 1]>>

\* fraction digits of r/d (0 <= r < d) by long division; the expansion terminates
RECURSIVE FracDigits(_, _)
FracDigits(r, d) ==
    IF r = 0 THEN <<>>
    ELSE <<DigitChars[((r * 10) \div d) + 1]>> \o FracDigits((r * 10) % d, d)

RECURSIVE LeadingZeros(_)
LeadingZeros(s) ==
    IF s # <<>> /\ s[1] = "0" THEN 1 + LeadingZeros(Tail(s)) ELSE 0

\* Number.prototype.toString for a number x >= 0 below 1e21: plain decimal
\* notation from 1e-6 up, exponent notation d[.ddd]e-N below 1e-6
NumToString(x) ==
    IF ~IsNum(x) THEN <<"N", "a", "N">>
    ELSE
    LET ip == x.n \div x.d
        fr == FracDigits(x.n % x.d, x.d)
        z == LeadingZeros(fr)
        sig == SubSeq(fr, z + 1, Len(fr))
    IN  IF fr = <<>> THEN NatToString(ip)
        ELSE IF ip = 0 /\ z >= 6
             THEN <<sig[1]>>
                  \o (IF Len(sig) > 1 THEN <<".">> \o Tail(sig) ELSE <<>>)
                  \o <<"e", "-">> \o NatToString(z + 1)
        ELSE NatToString(ip) \o <<".">> \o fr


---------------------------------------------------------------------------
(* utils/currency.js *)

\* a token is [currency, price]; NoToken is the null token reference
NoToken == [currency |-> "null", price |-> 0]
Token(c, p) == [currency |-> c, price |-> p]

\* calculateExchangeRate(fromToken, toToken)
calculateExchangeRate(fromToken, toToken) ==
    IF fromToken = NoToken \/ fromToken.price = 0
       \/ toToken = NoToken \/ toToken.price = 0
       \/ fromToken.price = 0
    THEN Zero
    ELSE IF toToken.price < 0 THEN Num(-fromToken.price, -toToken.price)
    ELSE Num(fromToken.price, toToken.price)

\* calculateOutputAmount(inputAmount, exchangeRate) for a string inputAmount
calculateOutputAmount(inputAmount, exchangeRate) ==
    LET amount == ParseFloat(inputAmount)
    IN  IF ~IsNum(amount) \/ amount.n <= 0
           \/ exchangeRate.k = "null"
           \/ (IsNum(exchangeRate) /\ exchangeRate.n <= 0)
        THEN Zero
        ELSE IF ~IsNum(exchangeRate) THEN NaN
        ELSE Mul(amount, exchangeRate)

\* isValidAmount(amount) for a string amount
isValidAmount(amount) ==
    IF amount = <<>> \/ Trim(amount) = <<>> THEN FALSE
    ELSE LET num == ParseFloat(amount)
         IN  IsNum(num) /\ num.n > 0

NoError == "null"
ErrNoFrom == "Please select a token to swap from"
ErrNoTo == "Please select a token to swap to"
ErrSame == "Cannot swap the same token"
ErrAmount == "Please enter a valid amount"

\* validateSwapData with the amount checked before the tokens
validateSwapDataAmountFirst(fromToken, toToken, fromAmount) ==
    IF ~isValidAmount(fromAmount)
    THEN [isValid |-> FALSE, error |-> ErrAmount]
    ELSE IF fromToken = NoToken THEN [isValid |-> FALSE, error |-> ErrNoFrom]
    ELSE IF toToken = NoToken THEN [isValid |-> FALSE, error |-> ErrNoTo]
    ELSE IF fromToken.currency = toToken.currency
         THEN [isValid |-> FALSE, error |-> ErrSame]
    ELSE [isValid |-> TRUE, error |-> NoError]

\* validateSwapData without the same-token check
validateSwapDataNoSameCheck(fromToken, toToken, fromAmount) ==
    IF fromToken = NoToken THEN [isValid |-> FALSE, error |-> ErrNoFrom]
    ELSE IF toToken = NoToken THEN [isValid |-> FALSE, error |-> ErrNoTo]
    ELSE IF ~isValidAmount(fromAmount)
         THEN [isValid |-> FALSE, error |-> ErrAmount]
    ELSE [isValid |-> TRUE, error |-> NoError]

\* validateSwapData with toToken checked before fromToken
validateSwapDataToTokenFirst(fromToken, toToken, fromAmount) ==
    IF toToken = NoToken THEN [isValid |-> FALSE, error |-> ErrNoTo]
    ELSE IF fromToken = NoToken THEN [isValid |-> FALSE, error |-> ErrNoFrom]
    ELSE IF fromToken.currency = toToken.currency
         THEN [isValid |-> FALSE, error |-> ErrSame]
    ELSE IF ~isValidAmount(fromAmount)
         THEN [isValid |-> FALSE, error |-> ErrAmount]
    ELSE [isValid |-> TRUE, error |-> NoError]

\* validateSwapData(fromToken, toToken, fromAmount)
validateSwapData(fromToken, toToken, fromAmount) ==
    IF fromToken = NoToken THEN [isValid |-> FALSE, error |-> ErrNoFrom]
    ELSE IF toToken = NoToken THEN [isValid |-> FALSE, error |-> ErrNoTo]
    ELSE IF fromToken.currency = toToken.currency
         THEN [isValid |-> FALSE, error |-> ErrSame]
    ELSE IF ~isValidAmount(fromAmount)
         THEN [isValid |-> FALSE, error |-> ErrAmount]
    ELSE [isValid |-> TRUE, error |-> NoError]

\* getTokenIconUrl(currency): the parts of the URL
getTokenIconUrl(currency) ==
    IF currency = "" THEN <<>>
    ELSE <<"https://raw.githubusercontent.com/Switcheo/token-icons/main/tokens/",
           currency, ".svg">>

\* a price sample of the feed; date is the time value of new Date(item.date)
Sample(c, p, d) == [currency |-> c, price |-> p, date |-> d]

\* tokenMap.get(currency): the position of the entry in the Map, 0 for none
RECURSIVE MapIndex(_, _, _)
MapIndex(tokenMap, currency, i) ==
    IF i > Len(tokenMap) THEN 0
    ELSE IF tokenMap[i].currency = currency THEN i
    ELSE MapIndex(tokenMap, currency, i + 1)

\* the forEach without the date comparison: the first sample of a currency stays
RECURSIVE GroupFirst(_, _)
GroupFirst(priceData, tokenMap) ==
    IF priceData = <<>> THEN tokenMap
    ELSE IF MapIndex(tokenMap, Head(priceData).currency, 1) = 0
         THEN GroupFirst(Tail(priceData), Append(tokenMap, Head(priceData)))
    ELSE GroupFirst(Tail(priceData), tokenMap)

\* priceData.forEach: a Map keeps the position of a key that is set again
RECURSIVE GroupLatest(_, _)
GroupLatest(priceData, tokenMap) ==
    IF priceData = <<>> THEN tokenMap
    ELSE LET item == Head(priceData)
             existing == MapIndex(tokenMap, item.currency, 1)
         IN  IF existing = 0
             THEN GroupLatest(Tail(priceData), Append(tokenMap, item))
             ELSE IF item.date > tokenMap[existing].date
             THEN GroupLatest(Tail(priceData), [tokenMap EXCEPT ![existing] = item])
             ELSE GroupLatest(Tail(priceData), tokenMap)

\* Array.from(tokenMap.values()).map(...)
ToTokens(tokenMap) ==
    [i \in 1..Len(tokenMap) |->
        [currency |-> tokenMap[i].currency,
         price |-> tokenMap[i].price,
         lastUpdated |-> tokenMap[i].date,
         iconUrl |-> getTokenIconUrl(tokenMap[i].currency)]]

\* processTokenData that keeps the first sample of each currency
processTokenDataKeepsFirst(priceData) == ToTokens(GroupFirst(priceData, <<>>))

\* processTokenData(priceData)
processTokenData(priceData) == ToTokens(GroupLatest(priceData, <<>>))

\* debounce(func, delay): the closure's timeoutId is either NoTimer or one
\* pending timeout holding the arguments of the call that set it and the
\* time left until it runs func
NoTimer == [pending |-> FALSE, amount |-> <<>>, rate |-> NullNum, rem |-> 0]

\* debounce that leaves a pending timeout's deadline as it is
debounceKeepsDeadline(timer, amount, rate, delay) ==
    [pending |-> TRUE, amount |-> amount, rate |-> rate,
     rem |-> IF timer.pending THEN timer.rem ELSE delay]

\* one call of the debounced function: clearTimeout(timeoutId), then
\* timeoutId = setTimeout(() => func(...args), delay)
debounce(timer, amount, rate, delay) ==
    [pending |-> TRUE, amount |-> amount, rate |-> rate, rem |-> delay]

\* the timeout is due: its callback runs func(...args)
Due(timer) == timer.pending /\ timer.rem = 0

---------------------------------------------------------------------------
(* Problem 1: three ways to sum to n, on integers for which the arithmetic  *)
(* of JavaScript numbers is exact                                           *)

\* return (n * (n + 1)) / 2: the product of two consecutive integers is even
sum_to_n_a(n) == (n * (n + 1)) \div 2

\* the for loop of sum_to_n_b, from i with the sum so far
RECURSIVE SumLoop(_, _, _)
SumLoop(i, n, sum) == IF i <= n THEN SumLoop(i + 1, n, sum + i) ELSE sum

\* sum_to_n_b with the loop condition i < n
sum_to_n_b_exclusive(n) == SumLoop(1, n - 1, 0)

\* let sum = 0; for (let i = 1; i <= n; i++) sum += i; return sum
sum_to_n_b(n) == SumLoop(1, n, 0)

RECURSIVE sum_to_n_c(_)
sum_to_n_c(n) == IF n <= 1 THEN n ELSE n + sum_to_n_c(n - 1)

---------------------------------------------------------------------------
(* Problem 3: WalletPage's sortedBalances.  A balance is [blockchain, amount] *)

\* priorityMap[blockchain] ?? -99
getPriority(blockchain) ==
    CASE blockchain = "Osmosis" -> 100
      [] blockchain = "Ethereum" -> 50
      [] blockchain = "Arbitrum" -> 30
      [] blockchain = "Zilliqa" -> 20
      [] blockchain = "Neo" -> 20
      [] OTHER -> -99

\* the filter callback
KeepBalance(balance) ==
    getPriority(balance.blockchain) > -99 /\ balance.amount > 0

\* the sort callback without the comparison of the amounts
CompareByPriorityOnly(lhs, rhs) ==
    getPriority(rhs.blockchain) - getPriority(lhs.blockchain)

\* the sort callback: negative when lhs goes first
CompareBalances(lhs, rhs) ==
    IF getPriority(lhs.blockchain) # getPriority(rhs.blockchain)
    THEN getPriority(rhs.blockchain) - getPriority(lhs.blockchain)
    ELSE rhs.amount - lhs.amount

\* Array.prototype.filter with KeepBalance
RECURSIVE FilterBalances(_)
FilterBalances(balances) ==
    IF balances = <<>> THEN <<>>
    ELSE (IF KeepBalance(Head(balances)) THEN <<Head(balances)>> ELSE <<>>)
         \o FilterBalances(Tail(balances))

\* Array.prototype.sort is stable: x goes behind every element that the
\* callback does not put after it
RECURSIVE InsertBalance(_, _)
InsertBalance(x, sorted) ==
    IF sorted = <<>> THEN <<x>>
    ELSE IF CompareBalances(Head(sorted), x) <= 0
         THEN <<Head(sorted)>> \o InsertBalance(x, Tail(sorted))
         ELSE <<x>> \o sorted

RECURSIVE SortBalances(_, _)
SortBalances(balances, sorted) ==
    IF balances = <<>> THEN sorted
    ELSE SortBalances(Tail(balances), InsertBalance(Head(balances), sorted))

\* balances.filter(...).sort(...)
sortedBalances(balances) == SortBalances(FilterBalances(balances), <<>>)

---------------------------------------------------------------------------
(* hooks/useSwap.js: the swap session *)

VARIABLES
    formData,    \* useState: [fromToken, toToken, fromAmount, toAmount]
    isLoading,   \* useState(false)
    error,       \* useState(null)
    timeoutId,   \* the timer of debouncedCalculateToAmount
    commits,     \* the executeSwap runs awaiting their 2000 ms delay, oldest
                 \* first: for each, whether the pending debounce timeout was
                 \* set before the delay started
    lastCall,    \* history: the last call of an action of the hook
    run          \* history: progress of an executeSwap run nothing interleaves

\* a debounced function on its own, with the time its timeout has left
VARIABLES
    d_timer,     \* the closure's timeoutId
    d_since,     \* history: ms since the last call, up to DebounceDelay
    d_last,      \* history: the arguments of the last call
    d_burst,     \* history: calls since the last execution of func
    d_execs,     \* history: executions of func since the last call
    d_ran        \* history: the arguments func was last executed with

\* one call of a function of utils/currency.js or of sum_to_n
VARIABLES
    u_in,        \* the call: [fn, args]
    u_out        \* its outcome: [fn |-> "none"] before the call

\* the PriceService instance and its callers
VARIABLES
    p_cache,     \* this.cache.get("tokens"): NoEntry or [data, timestamp]
    p_now,       \* Date.now()
    p_calls,     \* for each caller, its getTokens call: where it is, its
                 \* local `cached`, what it returned, and as history the
                 \* fetches it issued and whether it started with no other
                 \* call in flight
    p_lastWrite  \* history: the caller whose call last wrote the cache

\* one component's useTokens hook
VARIABLES
    t_tokens,    \* useState([])
    t_isLoading, \* useState(true)
    t_error,     \* useState(null)
    t_inFlight,  \* the fetchTokens runs awaiting currencyService.getTokens()
    t_sinceSet,  \* ms since the auto-refresh effect last set its interval, or
                 \* since the interval's last tick, up to RefreshInterval
    t_last       \* history: the last step, and for a step that started a run
                 \* the runs that were in flight when it did

svars == <<formData, isLoading, error, timeoutId, commits, lastCall, run>>
dvars == <<d_timer, d_since, d_last, d_burst, d_execs, d_ran>>
uvars == <<u_in, u_out>>
pvars == <<p_cache, p_now, p_calls, p_lastWrite>>
tvars == <<t_tokens, t_isLoading, t_error, t_inFlight, t_sinceSet, t_last>>
vars == <<formData, isLoading, error, timeoutId, commits, lastCall, run,
          d_timer, d_since, d_last, d_burst, d_execs, d_ran,
          u_in, u_out,
          p_cache, p_now, p_calls, p_lastWrite,
          t_tokens, t_isLoading, t_error, t_inFlight, t_sinceSet, t_last>>

\* what the steps of each part leave alone
OutsideSession == <<dvars, uvars, pvars, tvars>>
OutsideDebounce == <<svars, uvars, pvars, tvars>>
OutsideUtils == <<svars, dvars, pvars, tvars>>
OutsideCache == <<svars, dvars, uvars, tvars>>
OutsideTokens == <<svars, dvars, uvars, pvars>>

\* inputs of the calls
ETH == Token("ETH", 4)
USDC == Token("USDC", 1)
TokenInputs == {NoToken, ETH, USDC}
AmountInputs ==
    { <<>>, <<"2">>, <<".">>,
      <<"a">>, <<"-", "2">>, <<".", ".">>, <<"2", "a">> }

InitialForm ==
    [fromToken |-> NoToken, toToken |-> NoToken,
     fromAmount |-> <<>>, toAmount |-> <<>>]

\* const exchangeRate = useMemo(...)
exchangeRate(f) ==
    IF f.fromToken = NoToken \/ f.toToken = NoToken THEN NullNum
    ELSE calculateExchangeRate(f.fromToken, f.toToken)

\* const validation = useMemo(...)
validation(f) == validateSwapData(f.fromToken, f.toToken, f.fromAmount)

\* the function wrapped by debounce: the toAmount it writes
CalculateToAmount(amount, rate) ==
    IF TruthyNum(rate) /\ amount # <<>>
    THEN NumToString(calculateOutputAmount(amount, rate))
    ELSE <<>>

\* the auto-calculate effect, run after a render in which fromAmount or
\* exchangeRate differ from the previous render (f0: previous, f1: current)
AutoCalculate(f0, f1, timer) ==
    IF f1.fromAmount = f0.fromAmount /\ exchangeRate(f1) = exchangeRate(f0)
    THEN [form |-> f1, timer |-> timer, called |-> FALSE]
    ELSE IF TruthyNum(exchangeRate(f1)) /\ f1.fromAmount # <<>>
    THEN [form |-> f1,
          timer |-> debounce(timer, f1.fromAmount, exchangeRate(f1), DebounceDelay),
          called |-> TRUE]
    ELSE [form |-> [f1 EXCEPT !.toAmount = <<>>], timer |-> timer, called |-> FALSE]

\* the clear-error effect missing
KeepError(err) == err

\* the clear-error effect, run after every render with a new formData object
ClearError(err) == NoError

\* amount * rate has a numerator and a denominator of at most MaxMagnitude
Representable(amount, rate) ==
    LET a == ParseFloat(amount)
    IN  (IsNum(a) /\ a.n > 0 /\ IsNum(rate) /\ rate.n > 0)
        => (a.n <= MaxMagnitude \div rate.n /\ a.d <= MaxMagnitude \div rate.d)

\* the strings stay within the model's length bound
Bounded(f, timer) ==
    /\ Len(f.fromAmount) <= MaxLen
    /\ Len(f.toAmount) <= MaxLen
    /\ timer.pending => Representable(timer.amount, timer.rate)
    /\ timer.pending => Len(CalculateToAmount(timer.amount, timer.rate)) <= MaxLen

\* op: the action called; ok: it passed the action's own check; changed: it
\* changed fromAmount; hadError: error was set when it was called
Call(op, ok, changed, hadError) ==
    [op |-> op, ok |-> ok, changed |-> changed, hadError |-> hadError]

\* a debounce timeout set now is due after every timeout pending now: none of
\* the pending commit delays started after it
RECURSIVE NoneBefore(_)
NoneBefore(q) == IF q = <<>> THEN <<>> ELSE <<FALSE>> \o NoneBefore(Tail(q))

\* a call of setFormData by an action, then the render and its effects
SetFormData(f1) ==
    LET r == AutoCalculate(formData, f1, timeoutId)
    IN  /\ Bounded(r.form, r.timer)
        /\ formData' = r.form
        /\ timeoutId' = r.timer
        /\ commits' = IF r.called THEN NoneBefore(commits) ELSE commits
        /\ error' = ClearError(error)

\* the hook after its first render
InitSession ==
    /\ formData = InitialForm
    /\ isLoading = FALSE
    /\ error = NoError
    /\ timeoutId = NoTimer
    /\ commits = <<>>
    /\ lastCall = Call("mount", TRUE, FALSE, FALSE)
    /\ run = "none"

\* a debounced function that was never called
InitDebounce ==
    /\ d_timer = NoTimer
    /\ d_since = 0
    /\ d_last = <<<<>>, NullNum>>
    /\ d_burst = 0
    /\ d_execs = 0
    /\ d_ran = <<<<>>, NullNum>>

\* no call of a utility function
NoCall == [fn |-> "none"]
InitUtils ==
    /\ u_in = NoCall
    /\ u_out = NoCall

\* the cache of a new PriceService: this.cache = new Map()
NoEntry == [present |-> FALSE, data |-> <<>>, timestamp |-> 0]
Entry(data, timestamp) == [present |-> TRUE, data |-> data, timestamp |-> timestamp]

\* a caller that has not called getTokens
NoGetTokens ==
    [pc |-> "idle", cached |-> NoEntry, result |-> <<>>, fetches |-> 0,
     first |-> FALSE, started |-> 0]

InitCache ==
    /\ p_cache = NoEntry
    /\ p_now = 0
    /\ p_calls = [i \in 1..MaxCalls |-> NoGetTokens]
    /\ p_lastWrite = 0

\* a step of useTokens: what it was, whether it started a fetchTokens run and
\* how many runs were in flight when it did
TokensStep(op, started, others) == [op |-> op, started |-> started, others |-> others]

\* useTokens after mount: the initial-fetch effect has called fetchTokens and
\* the auto-refresh interval is set
InitTokens ==
    /\ t_tokens = <<>>
    /\ t_isLoading = TRUE
    /\ t_error = NoError
    /\ t_inFlight = 1
    /\ t_sinceSet = 0
    /\ t_last = TokensStep("mount", TRUE, 0)

Init ==
    /\ InitSession
    /\ InitDebounce
    /\ InitUtils
    /\ InitCache
    /\ InitTokens

setFromToken(token) ==
    /\ SetFormData([formData EXCEPT !.fromToken = token])
    /\ lastCall' = Call("setFromToken", TRUE, FALSE, error # NoError)
    /\ run' = "none"
    /\ UNCHANGED isLoading
    /\ UNCHANGED OutsideSession

setToToken(token) ==
    /\ SetFormData([formData EXCEPT !.toToken = token])
    /\ lastCall' = Call("setToToken", TRUE, FALSE, error # NoError)
    /\ run' = "none"
    /\ UNCHANGED isLoading
    /\ UNCHANGED OutsideSession

setFromAmount(amount) ==
    /\ IF amount = <<>> \/ MatchesDecimalPattern(amount)
       THEN /\ SetFormData([formData EXCEPT !.fromAmount = amount])
            /\ lastCall' = Call("setFromAmount", TRUE,
                                amount # formData.fromAmount, error # NoError)
       ELSE /\ UNCHANGED <<formData, timeoutId, commits, error>>
            /\ lastCall' = Call("setFromAmount", FALSE, FALSE, error # NoError)
    /\ run' = "none"
    /\ UNCHANGED isLoading
    /\ UNCHANGED OutsideSession

\* setToAmount with the back-computation multiplying by the rate itself
setToAmountByRate(amount) ==
    /\ IF amount = <<>> \/ MatchesDecimalPattern(amount)
       THEN /\ IF TruthyNum(exchangeRate(formData)) /\ amount # <<>>
               THEN LET reverseAmount ==
                            calculateOutputAmount(amount, exchangeRate(formData))
                    IN  SetFormData([formData EXCEPT
                                       !.toAmount = amount,
                                       !.fromAmount = NumToString(reverseAmount)])
               ELSE SetFormData([formData EXCEPT !.toAmount = amount])
            /\ lastCall' = Call("setToAmount", TRUE, FALSE, error # NoError)
       ELSE /\ UNCHANGED <<formData, timeoutId, commits, error>>
            /\ lastCall' = Call("setToAmount", FALSE, FALSE, error # NoError)
    /\ run' = "none"
    /\ UNCHANGED isLoading
    /\ UNCHANGED OutsideSession

\* setToAmount that clears fromAmount when there is no rate to compute it with
setToAmountClearsFrom(amount) ==
    /\ IF amount = <<>> \/ MatchesDecimalPattern(amount)
       THEN /\ IF TruthyNum(exchangeRate(formData)) /\ amount # <<>>
               THEN LET reverseAmount ==
                            calculateOutputAmount(amount,
                                                  Recip(exchangeRate(formData)))
                    IN  SetFormData([formData EXCEPT
                                       !.toAmount = amount,
                                       !.fromAmount = NumToString(reverseAmount)])
               ELSE SetFormData([formData EXCEPT !.toAmount = amount,
                                                 !.fromAmount = <<>>])
            /\ lastCall' = Call("setToAmount", TRUE, FALSE, error # NoError)
       ELSE /\ UNCHANGED <<formData, timeoutId, commits, error>>
            /\ lastCall' = Call("setToAmount", FALSE, FALSE, error # NoError)
    /\ run' = "none"
    /\ UNCHANGED isLoading
    /\ UNCHANGED OutsideSession

setToAmount(amount) ==
    /\ IF amount = <<>> \/ MatchesDecimalPattern(amount)
       THEN /\ IF TruthyNum(exchangeRate(formData)) /\ amount # <<>>
               THEN LET reverseAmount ==
                            calculateOutputAmount(amount,
                                                  Recip(exchangeRate(formData)))
                    IN  SetFormData([formData EXCEPT
                                       !.toAmount = amount,
                                       !.fromAmount = NumToString(reverseAmount)])
               ELSE SetFormData([formData EXCEPT !.toAmount = amount])
            /\ lastCall' = Call("setToAmount", TRUE, FALSE, error # NoError)
       ELSE /\ UNCHANGED <<formData, timeoutId, commits, error>>
            /\ lastCall' = Call("setToAmount", FALSE, FALSE, error # NoError)
    /\ run' = "none"
    /\ UNCHANGED isLoading
    /\ UNCHANGED OutsideSession

swapTokens ==
    /\ SetFormData([fromToken |-> formData.toToken,
                    toToken |-> formData.fromToken,
                    fromAmount |-> formData.toAmount,
                    toAmount |-> formData.fromAmount])
    /\ lastCall' = Call("swapTokens", TRUE, FALSE, error # NoError)
    /\ run' = "none"
    /\ UNCHANGED isLoading
    /\ UNCHANGED OutsideSession

\* resetForm that clears the tokens only
resetFormKeepsAmounts ==
    /\ SetFormData([formData EXCEPT !.fromToken = NoToken, !.toToken = NoToken])
    /\ lastCall' = Call("resetForm", TRUE, FALSE, FALSE)
    /\ run' = "none"
    /\ UNCHANGED isLoading
    /\ UNCHANGED OutsideSession

resetForm ==
    /\ SetFormData(InitialForm)
    /\ lastCall' = Call("resetForm", TRUE, FALSE, FALSE)
    /\ run' = "none"
    /\ UNCHANGED isLoading
    /\ UNCHANGED OutsideSession

\* executeSwap up to its await: rejected, or the commit delay started
executeSwap ==
    /\ IF ~validation(formData).isValid
       THEN /\ error' = validation(formData).error
            /\ run' = "none"
            /\ UNCHANGED <<isLoading, commits>>
       ELSE /\ Len(commits) < MaxCommits
            /\ isLoading' = TRUE
            /\ error' = NoError
            /\ commits' = Append(commits, timeoutId.pending)
            /\ run' = IF commits = <<>> /\ ~isLoading THEN "started" ELSE "none"
    /\ lastCall' = Call("executeSwap", validation(formData).isValid, FALSE, FALSE)
    /\ UNCHANGED <<formData, timeoutId>>
    /\ UNCHANGED OutsideSession

\* executeSwap after its await, without the finally block's setIsLoading(false)
completeSwapKeepsLoading ==
    /\ commits # <<>>
    /\ DebounceDelay <= SwapDelay => ~Head(commits)
    /\ LET r == AutoCalculate(formData, InitialForm, timeoutId)
       IN  /\ formData' = r.form
           /\ timeoutId' = r.timer
    /\ error' = NoError
    /\ commits' = Tail(commits)
    /\ run' = IF run = "started" THEN "done" ELSE run
    /\ UNCHANGED <<isLoading, lastCall>>
    /\ UNCHANGED OutsideSession

\* executeSwap after its await: resetForm(), then setIsLoading(false).  The
\* 2000 ms delay ends after a 300 ms debounce timeout that was set before it
\* started has run.
completeSwap ==
    /\ commits # <<>>
    /\ DebounceDelay <= SwapDelay => ~Head(commits)
    /\ LET r == AutoCalculate(formData, InitialForm, timeoutId)
       IN  /\ formData' = r.form
           /\ timeoutId' = r.timer
    /\ error' = NoError
    /\ isLoading' = FALSE
    /\ commits' = Tail(commits)
    /\ run' = IF run = "started" THEN "done" ELSE run
    /\ UNCHANGED lastCall
    /\ UNCHANGED OutsideSession

\* the debounce timeout runs the wrapped function with the stored arguments
fireDebounce ==
    /\ timeoutId.pending
    /\ LET f1 == [formData EXCEPT
                    !.toAmount = CalculateToAmount(timeoutId.amount, timeoutId.rate)]
           r == AutoCalculate(formData, f1, NoTimer)
       IN  /\ formData' = r.form
           /\ timeoutId' = r.timer
    /\ commits' = NoneBefore(commits)
    /\ error' = ClearError(error)
    /\ UNCHANGED <<isLoading, lastCall, run>>
    /\ UNCHANGED OutsideSession

Next ==
    \/ \E token \in TokenInputs : setFromToken(token)
    \/ \E token \in TokenInputs : setToToken(token)
    \/ \E amount \in AmountInputs : setFromAmount(amount)
    \/ \E amount \in AmountInputs : setToAmount(amount)
    \/ swapTokens
    \/ resetForm
    \/ executeSwap
    \/ completeSwap
    \/ fireDebounce

Spec == Init /\ [][Next]_vars

\* every timeout that was set runs: weak fairness of completeSwap and of
\* fireDebounce, the latter with ENABLED <<fireDebounce>>_vars written out as
\* timeoutId.pending
FairSpec ==
    /\ Spec
    /\ WF_vars(completeSwap)
    /\ ([]<>(~timeoutId.pending) \/ []<><<fireDebounce>>_vars)

\* The same session over a pair of tokens whose prices are 10^7 apart, as a
\* stablecoin and a high-priced coin are: the rate from the first to the
\* second is 1e-7.
BTC == Token("BTC", 10000000)
SmallRateTokens == {NoToken, USDC, BTC}
SmallRateAmounts == { <<>>, <<"1">>, <<"a">> }

SmallRateNext ==
    \/ \E token \in SmallRateTokens : setFromToken(token)
    \/ \E token \in SmallRateTokens : setToToken(token)
    \/ \E amount \in SmallRateAmounts : setFromAmount(amount)
    \/ \E amount \in SmallRateAmounts : setToAmount(amount)
    \/ swapTokens
    \/ resetForm
    \/ executeSwap
    \/ completeSwap
    \/ fireDebounce

SmallRateSpec == Init /\ [][SmallRateNext]_vars

\* The same session over a token whose price is 0: every rate from or to it
\* is 0.
ZERO == Token("ZERO", 0)
ZeroPriceTokens == {NoToken, ETH, ZERO}
ZeroPriceAmounts == { <<>>, <<"2">>, <<"8">>, <<"a">> }

ZeroPriceNext ==
    \/ \E token \in ZeroPriceTokens : setFromToken(token)
    \/ \E token \in ZeroPriceTokens : setToToken(token)
    \/ \E amount \in ZeroPriceAmounts : setFromAmount(amount)
    \/ \E amount \in ZeroPriceAmounts : setToAmount(amount)
    \/ swapTokens
    \/ resetForm
    \/ executeSwap
    \/ completeSwap
    \/ fireDebounce

ZeroPriceSpec == Init /\ [][ZeroPriceNext]_vars

---------------------------------------------------------------------------
(* utils/currency.js: debounce(func, delay) with the time of its timeout *)

Min(a, b) == IF a <= b THEN a ELSE b

DebounceArgs == {<<"2">>, <<"8">>} \X {Num(4, 1), Num(1, 4)}

\* a call of the debounced function
DebouncedCall(amount, rate) ==
    /\ d_timer.pending => d_burst < MaxBurst
    /\ d_timer' = debounce(d_timer, amount, rate, DebounceDelay)
    /\ d_since' = 0
    /\ d_last' = <<amount, rate>>
    /\ d_burst' = IF d_timer.pending THEN d_burst + 1 ELSE 1
    /\ d_execs' = 0
    /\ UNCHANGED d_ran
    /\ UNCHANGED OutsideDebounce

\* time passes while the timeout is not due
DebounceTick ==
    /\ d_timer.pending /\ d_timer.rem > 0
    /\ d_timer' = [d_timer EXCEPT !.rem = @ - Min(Quantum, @)]
    /\ d_since' = Min(DebounceDelay, d_since + Min(Quantum, d_timer.rem))
    /\ UNCHANGED <<d_last, d_burst, d_execs, d_ran>>
    /\ UNCHANGED OutsideDebounce

\* the timeout is due: () => func(...args)
DebounceRun ==
    /\ Due(d_timer)
    /\ d_ran' = <<d_timer.amount, d_timer.rate>>
    /\ d_execs' = d_execs + 1
    /\ d_timer' = NoTimer
    /\ UNCHANGED <<d_since, d_last, d_burst>>
    /\ UNCHANGED OutsideDebounce

DebounceNext ==
    \/ \E args \in DebounceArgs : DebouncedCall(args[1], args[2])
    \/ DebounceTick
    \/ DebounceRun

\* the timeout runs when it is due and time does not stop
DebounceSpec ==
    Init /\ [][DebounceNext]_vars /\ WF_vars(DebounceTick) /\ WF_vars(DebounceRun)

---------------------------------------------------------------------------
(* utils/currency.js on any JavaScript value: undefined, null, numbers and  *)
(* strings.  A call either returns a value or throws.  The text produced by *)
(* Intl.NumberFormat and toFixed is kept as the formatting request: which   *)
(* formatter, which number, how many fraction digits.                       *)

Undefined == [t |-> "undefined", n |-> NaN, s |-> <<>>]
Null == [t |-> "null", n |-> NaN, s |-> <<>>]
JsNum(x) == [t |-> "number", n |-> x, s |-> <<>>]
JsStr(str) == [t |-> "string", n |-> NaN, s |-> str]

\* the value of a parameter with a default: (amount = 0) => ...
Default(v, d) == IF v = Undefined THEN d ELSE v

\* !!v
Truthy(v) ==
    CASE v.t = "number" -> TruthyNum(v.n)
      [] v.t = "string" -> v.s # <<>>
      [] OTHER -> FALSE

\* Number(str) for strings without exponent, radix prefix or Infinity
StringToNumber(str) ==
    LET body == IF Trim(str) # <<>> /\ Head(Trim(str)) \in {"-", "+"}
                THEN Tail(Trim(str)) ELSE Trim(str)
    IN  IF Trim(str) = <<>> THEN Zero
        ELSE IF MatchesDecimalPattern(body) /\ \E i \in 1..Len(body) : IsDigit(body[i])
        THEN ParseFloat(Trim(str))
        ELSE NaN

\* the number a value is converted to by isNaN, by a comparison with a
\* number and by a division
ToNumber(v) ==
    CASE v.t = "number" -> v.n
      [] v.t = "string" -> StringToNumber(v.s)
      [] v.t = "null" -> Zero
      [] OTHER -> NaN

\* x < y and x >= y on numbers: false when either is NaN
Less(x, y) == IsNum(x) /\ IsNum(y) /\ x.n * y.d < y.n * x.d
AtLeast(x, y) == IsNum(x) /\ IsNum(y) /\ x.n * y.d >= y.n * x.d

\* typeof v === "string" ? parseFloat(v) : v
ParseIfString(v) == IF v.t = "string" THEN JsNum(ParseFloat(v.s)) ELSE v

\* the outcome of a call
Ok(val) == [thrown |-> FALSE, val |-> val]
Throws(what) == [thrown |-> TRUE, val |-> what]

\* the text of a formatter applied to the number x
Formatted(how, x, digits) == [how |-> how, x |-> x, digits |-> digits]

\* num.toFixed(digits): a TypeError on null, which has no properties (a
\* parameter with a default is never undefined)
ToFixed(num, digits) ==
    IF num.t = "number" THEN Ok(Formatted("toFixed", num.n, digits))
    ELSE Throws("TypeError")

DECIMAL_PLACES_AMOUNT == 6
DECIMAL_PLACES_PRICE == 8
Min2(a, b) == IF a <= b THEN a ELSE b

\* formatAmount(amount, decimals, compact)
formatAmount(amount, decimals, compact) ==
    LET num == ParseIfString(Default(amount, JsNum(Zero)))
    IN  IF ~IsNum(ToNumber(num)) THEN Ok(<<"0">>)
        ELSE IF Less(Zero, ToNumber(num)) /\ Less(ToNumber(num), Num(1, 1000))
        THEN ToFixed(num, 8)
        ELSE IF compact /\ AtLeast(ToNumber(num), Num(1000000, 1))
        THEN Ok(Formatted("compact", ToNumber(num), 2))
        ELSE Ok(Formatted("decimal", ToNumber(num),
                          IF AtLeast(ToNumber(num), Num(1000, 1)) THEN Min2(2, decimals)
                          ELSE IF AtLeast(ToNumber(num), Num(100, 1)) THEN Min2(4, decimals)
                          ELSE decimals))

\* formatPrice(price, currency, compact)
formatPrice(price, compact) ==
    LET num == ParseIfString(Default(price, JsNum(Zero)))
    IN  IF ~IsNum(ToNumber(num)) THEN Ok(<<"$", "0", ".", "0", "0">>)
        ELSE IF Less(Zero, ToNumber(num)) /\ Less(ToNumber(num), Num(1, 100))
        THEN ToFixed(num, 8)
        ELSE IF compact /\ AtLeast(ToNumber(num), Num(1000000, 1))
        THEN Ok(Formatted("compact currency", ToNumber(num), 2))
        ELSE Ok(Formatted("currency", ToNumber(num),
                          IF AtLeast(ToNumber(num), Num(1000, 1)) THEN 2
                          ELSE IF AtLeast(ToNumber(num), Num(100, 1)) THEN 4
                          ELSE DECIMAL_PLACES_PRICE))

\* formatCryptoAmount(amount, symbol, showSymbol)
formatCryptoAmount(amount, symbol, showSymbol) ==
    LET formattedAmount == formatAmount(amount, 8, FALSE)
    IN  IF formattedAmount.thrown THEN formattedAmount
        ELSE IF showSymbol /\ symbol # ""
        THEN Ok(<<formattedAmount.val, " ", symbol>>)
        ELSE formattedAmount

\* formatPercentage(percentage, showSign)
formatPercentage(percentage, showSign) ==
    LET num == ParseIfString(Default(percentage, JsNum(Zero)))
    IN  IF ~IsNum(ToNumber(num)) THEN Ok(<<"0", "%">>)
        ELSE IF ToFixed(num, 2).thrown THEN ToFixed(num, 2)
        ELSE Ok(<<IF showSign /\ Less(Zero, ToNumber(num)) THEN "+" ELSE "",
                  ToFixed(num, 2).val, "%">>)

\* formatCompactNumber(num, decimals)
formatCompactNumber(value, decimals) ==
    LET num == Default(value, JsNum(Zero))
    IN  IF AtLeast(ToNumber(num), Num(1000000000, 1))
        THEN Ok(<<Formatted("toFixed / 1e9", ToNumber(num), decimals), "B">>)
        ELSE IF AtLeast(ToNumber(num), Num(1000000, 1))
        THEN Ok(<<Formatted("toFixed / 1e6", ToNumber(num), decimals), "M">>)
        ELSE IF AtLeast(ToNumber(num), Num(1000, 1))
        THEN Ok(<<Formatted("toFixed / 1e3", ToNumber(num), decimals), "K">>)
        ELSE formatAmount(num, decimals, FALSE)

\* formatExchangeRate(rate, fromSymbol, toSymbol)
formatExchangeRate(value, fromSymbol, toSymbol) ==
    LET rate == Default(value, JsNum(Zero))
        formattedRate == formatAmount(rate, 8, FALSE)
    IN  IF ~Truthy(rate) THEN Ok(<<"0">>)
        ELSE IF formattedRate.thrown THEN formattedRate
        ELSE IF fromSymbol # "" /\ toSymbol # ""
        THEN Ok(<<"1", " ", fromSymbol, " ", "=", " ", formattedRate.val, " ", toSymbol>>)
        ELSE formattedRate

\* isValidAmount(amount) for any value: amount.trim is not a function of a
\* number
isValidAmountOfValue(value) ==
    LET amount == Default(value, JsStr(<<>>))
    IN  IF ~Truthy(amount) THEN Ok(FALSE)
        ELSE IF amount.t # "string" THEN Throws("TypeError")
        ELSE Ok(isValidAmount(amount.s))

\* validateSwapData(fromToken, toToken, fromAmount) for any value of fromAmount
validateSwapDataOfValue(fromToken, toToken, value) ==
    IF fromToken = NoToken THEN Ok([isValid |-> FALSE, error |-> ErrNoFrom])
    ELSE IF toToken = NoToken THEN Ok([isValid |-> FALSE, error |-> ErrNoTo])
    ELSE IF fromToken.currency = toToken.currency
         THEN Ok([isValid |-> FALSE, error |-> ErrSame])
    ELSE IF isValidAmountOfValue(Default(value, JsStr(<<>>))).thrown
         THEN isValidAmountOfValue(Default(value, JsStr(<<>>)))
    ELSE IF ~isValidAmountOfValue(Default(value, JsStr(<<>>))).val
         THEN Ok([isValid |-> FALSE, error |-> ErrAmount])
    ELSE Ok([isValid |-> TRUE, error |-> NoError])

---------------------------------------------------------------------------
(* utils/currency.js and sum_to_n: one call of a function on drawn arguments *)

\* a call of fn on args, and the value a call returns
CallOf(fn, args) == [fn |-> fn, args |-> args]
Returned(fn, val) == [fn |-> fn, val |-> val]

\* arguments of validateSwapData: tokens or null, and amount strings
ValidateAmounts == AmountInputs \cup {<<" ">>, <<"0">>}
ValidateInputs ==
    {CallOf("validateSwapData", <<f, t, a>>) :
        f \in TokenInputs, t \in TokenInputs, a \in ValidateAmounts}

\* arguments of calculateExchangeRate: tokens or null, of any price
PriceInputs == {-4, -1, 0, 1, 4}
RateTokens == {NoToken} \cup {Token("T", p) : p \in PriceInputs}
RateInputs ==
    {CallOf("calculateExchangeRate", <<f, t>>) : f \in RateTokens, t \in RateTokens}

\* arguments of processTokenData: feeds of at most MaxSamples samples
SampleInputs ==
    {Sample(c, p, d) : c \in {"ETH", "USDC"}, p \in {1, 4}, d \in {1, 2}}
RECURSIVE FeedsOfLength(_)
FeedsOfLength(n) ==
    IF n = 0 THEN {<<>>}
    ELSE {Append(feed, item) : feed \in FeedsOfLength(n - 1), item \in SampleInputs}
FeedInputs == UNION {FeedsOfLength(n) : n \in 0..MaxSamples}
ProcessInputs == {CallOf("processTokenData", <<feed>>) : feed \in FeedInputs}

\* wallets given to WalletPage: balances on chains of different priority, of
\* equal priority (Zilliqa and Neo) and on a chain priorityMap does not have
BalanceInputs ==
    [blockchain : {"Osmosis", "Zilliqa", "Neo", "Bitcoin"}, amount : {-1, 0, 1, 2}]
RECURSIVE WalletsOfLength(_)
WalletsOfLength(n) ==
    IF n = 0 THEN {<<>>}
    ELSE {Append(w, b) : w \in WalletsOfLength(n - 1), b \in BalanceInputs}
WalletInputs ==
    {CallOf("sortedBalances", <<w>>) :
        w \in UNION {WalletsOfLength(n) : n \in 0..MaxBalances}}

\* arguments of sum_to_n_a, sum_to_n_b and sum_to_n_c
SumInputs ==
    {CallOf(fn, <<n>>) :
        fn \in {"sum_to_n_a", "sum_to_n_b", "sum_to_n_c"}, n \in (-2)..MaxN}

\* values given to the formatters and validators
JsValues ==
    {Undefined, Null,
     JsNum(Zero), JsNum(Num(5, 1)), JsNum(Num(-1, 1)), JsNum(NaN),
     JsStr(<<>>), JsStr(<<"2">>), JsStr(<<"a">>), JsStr(<<" ">>)}
Formatters ==
    {"formatAmount", "formatPrice", "formatCryptoAmount", "formatPercentage",
     "formatCompactNumber", "formatExchangeRate", "isValidAmount",
     "validateSwapData(ETH, USDC, _)"}
ValueInputs == {CallOf(fn, <<v>>) : fn \in Formatters, v \in JsValues}

\* the call of a formatter or validator on one value, the other parameters
\* at their defaults
Apply(fn, v) ==
    CASE fn = "formatAmount" -> formatAmount(v, DECIMAL_PLACES_AMOUNT, FALSE)
      [] fn = "formatPrice" -> formatPrice(v, FALSE)
      [] fn = "formatCryptoAmount" -> formatCryptoAmount(v, "", TRUE)
      [] fn = "formatPercentage" -> formatPercentage(v, TRUE)
      [] fn = "formatCompactNumber" -> formatCompactNumber(v, 1)
      [] fn = "formatExchangeRate" -> formatExchangeRate(v, "", "")
      [] fn = "isValidAmount" -> isValidAmountOfValue(v)
      [] fn = "validateSwapData(ETH, USDC, _)" -> validateSwapDataOfValue(ETH, USDC, v)

\* a formatter or validator is called
FormatterCall ==
    /\ u_in.fn \in Formatters /\ u_out = NoCall
    /\ u_out' = [fn |-> u_in.fn, val |-> Apply(u_in.fn, u_in.args[1]).val,
                 thrown |-> Apply(u_in.fn, u_in.args[1]).thrown]
    /\ UNCHANGED u_in
    /\ UNCHANGED OutsideUtils

\* validateSwapData(fromToken, toToken, fromAmount) is called
validateSwapDataCall ==
    /\ u_in.fn = "validateSwapData" /\ u_out = NoCall
    /\ u_out' = Returned("validateSwapData",
                         validateSwapData(u_in.args[1], u_in.args[2], u_in.args[3]))
    /\ UNCHANGED u_in
    /\ UNCHANGED OutsideUtils

\* calculateExchangeRate(fromToken, toToken) is called
calculateExchangeRateCall ==
    /\ u_in.fn = "calculateExchangeRate" /\ u_out = NoCall
    /\ u_out' = Returned("calculateExchangeRate",
                         calculateExchangeRate(u_in.args[1], u_in.args[2]))
    /\ UNCHANGED u_in
    /\ UNCHANGED OutsideUtils

\* processTokenData(priceData) is called
processTokenDataCall ==
    /\ u_in.fn = "processTokenData" /\ u_out = NoCall
    /\ u_out' = Returned("processTokenData", processTokenData(u_in.args[1]))
    /\ UNCHANGED u_in
    /\ UNCHANGED OutsideUtils

sortedBalancesCall ==
    /\ u_in.fn = "sortedBalances" /\ u_out = NoCall
    /\ u_out' = Returned("sortedBalances", sortedBalances(u_in.args[1]))
    /\ UNCHANGED u_in
    /\ UNCHANGED OutsideUtils

sum_to_n_a_Call ==
    /\ u_in.fn = "sum_to_n_a" /\ u_out = NoCall
    /\ u_out' = Returned("sum_to_n_a", sum_to_n_a(u_in.args[1]))
    /\ UNCHANGED u_in
    /\ UNCHANGED OutsideUtils

sum_to_n_b_Call ==
    /\ u_in.fn = "sum_to_n_b" /\ u_out = NoCall
    /\ u_out' = Returned("sum_to_n_b", sum_to_n_b(u_in.args[1]))
    /\ UNCHANGED u_in
    /\ UNCHANGED OutsideUtils

sum_to_n_c_Call ==
    /\ u_in.fn = "sum_to_n_c" /\ u_out = NoCall
    /\ u_out' = Returned("sum_to_n_c", sum_to_n_c(u_in.args[1]))
    /\ UNCHANGED u_in
    /\ UNCHANGED OutsideUtils

UtilInputs ==
    ValidateInputs \cup RateInputs \cup ProcessInputs \cup SumInputs \cup ValueInputs
    \cup WalletInputs

UtilInit ==
    /\ InitSession
    /\ InitDebounce
    /\ InitCache
    /\ InitTokens
    /\ u_in \in UtilInputs
    /\ u_out = NoCall

UtilNext ==
    \/ validateSwapDataCall
    \/ calculateExchangeRateCall
    \/ processTokenDataCall
    \/ sum_to_n_a_Call
    \/ sum_to_n_b_Call
    \/ sum_to_n_c_Call
    \/ FormatterCall
    \/ sortedBalancesCall

UtilSpec == UtilInit /\ [][UtilNext]_vars

---------------------------------------------------------------------------
(* services/priceService.js: PriceService.getTokens and its cache *)

\* the price feeds a fetch may return
FeedResults ==
    { <<Sample("ETH", 4, 1), Sample("USDC", 1, 1)>>,
      <<Sample("ETH", 4, 1), Sample("USDC", 1, 1), Sample("ETH", 1, 2)>> }

\* cached && Date.now() - cached.timestamp < this.CACHE_DURATION
StillValid(cached, time) ==
    cached.present /\ time - cached.timestamp < CACHE_DURATION

\* the validity test with <= in place of <
StillValidInclusive(cached, time) ==
    cached.present /\ time - cached.timestamp <= CACHE_DURATION

\* getTokens that serves an entry aged exactly CACHE_DURATION
getTokensServesAtDuration(i) ==
    /\ p_calls[i].pc # "fetching"
    /\ p_calls' =
         [p_calls EXCEPT ![i] =
            IF StillValidInclusive(p_cache, p_now)
            THEN [pc |-> "returned", cached |-> p_cache, result |-> p_cache.data,
                  fetches |-> 0, first |-> FALSE, started |-> p_now]
            ELSE [pc |-> "fetching", cached |-> p_cache, result |-> <<>>,
                  fetches |-> 1,
                  first |-> \A j \in 1..MaxCalls : p_calls[j].pc # "fetching",
                  started |-> p_now]]
    /\ UNCHANGED <<p_cache, p_now, p_lastWrite>>
    /\ UNCHANGED OutsideCache

\* caller i calls getTokens: up to the return of the cached data or to the
\* await of fetchPrices
getTokens(i) ==
    /\ p_calls[i].pc # "fetching"
    /\ p_calls' =
         [p_calls EXCEPT ![i] =
            IF StillValid(p_cache, p_now)
            THEN [pc |-> "returned", cached |-> p_cache, result |-> p_cache.data,
                  fetches |-> 0, first |-> FALSE, started |-> p_now]
            ELSE [pc |-> "fetching", cached |-> p_cache, result |-> <<>>,
                  fetches |-> 1,
                  first |-> \A j \in 1..MaxCalls : p_calls[j].pc # "fetching",
                  started |-> p_now]]
    /\ UNCHANGED <<p_cache, p_now, p_lastWrite>>
    /\ UNCHANGED OutsideCache

\* a fetch that succeeds and writes the cache only if no other call wrote it
\* since this call read it
fetchSucceedsFirstWins(i, priceData) ==
    /\ p_calls[i].pc = "fetching"
    /\ p_cache' = IF p_cache = p_calls[i].cached
                  THEN Entry(processTokenData(priceData), p_now)
                  ELSE p_cache
    /\ p_calls' = [p_calls EXCEPT ![i].pc = "returned",
                                  ![i].result = processTokenData(priceData)]
    /\ p_lastWrite' = IF p_cache = p_calls[i].cached THEN i ELSE p_lastWrite
    /\ UNCHANGED p_now
    /\ UNCHANGED OutsideCache

\* a fetch that succeeds and stamps the entry with the time the call started
fetchSucceedsStampsStart(i, priceData) ==
    /\ p_calls[i].pc = "fetching"
    /\ p_cache' = Entry(processTokenData(priceData), p_calls[i].started)
    /\ p_calls' = [p_calls EXCEPT ![i].pc = "returned",
                                  ![i].result = processTokenData(priceData)]
    /\ p_lastWrite' = i
    /\ UNCHANGED p_now
    /\ UNCHANGED OutsideCache

\* the fetch of caller i succeeds with priceData: the cache is set and the
\* tokens are returned
fetchSucceeds(i, priceData) ==
    /\ p_calls[i].pc = "fetching"
    /\ p_cache' = Entry(processTokenData(priceData), p_now)
    /\ p_calls' = [p_calls EXCEPT ![i].pc = "returned",
                                  ![i].result = processTokenData(priceData)]
    /\ p_lastWrite' = i
    /\ UNCHANGED p_now
    /\ UNCHANGED OutsideCache

\* the fetch of caller i fails: catch (error) { if (cached) return
\* cached.data; throw error }
fetchFails(i) ==
    /\ p_calls[i].pc = "fetching"
    /\ p_calls' = [p_calls EXCEPT
                     ![i].pc = IF p_calls[i].cached.present THEN "returned" ELSE "thrown",
                     ![i].result = IF p_calls[i].cached.present
                                   THEN p_calls[i].cached.data ELSE <<>>]
    /\ UNCHANGED <<p_cache, p_now, p_lastWrite>>
    /\ UNCHANGED OutsideCache

\* clearCache()
clearCache ==
    /\ p_cache' = NoEntry
    /\ UNCHANGED <<p_now, p_calls, p_lastWrite>>
    /\ UNCHANGED OutsideCache

\* time passes
ClockTick ==
    /\ p_now + ClockStep <= MaxClock
    /\ p_now' = p_now + ClockStep
    /\ UNCHANGED <<p_cache, p_calls, p_lastWrite>>
    /\ UNCHANGED OutsideCache

CacheNext ==
    \/ \E i \in 1..MaxCalls : getTokens(i)
    \/ \E i \in 1..MaxCalls : \E priceData \in FeedResults : fetchSucceeds(i, priceData)
    \/ \E i \in 1..MaxCalls : fetchFails(i)
    \/ clearCache
    \/ ClockTick

CacheSpec == Init /\ [][CacheNext]_vars

---------------------------------------------------------------------------
(* hooks/useTokens.js: fetchTokens and the auto-refresh interval *)

\* what currencyService.getTokens() resolves with
TokenData == {processTokenData(priceData) : priceData \in FeedResults}

\* the message of the error fetchPrices throws
FetchError == "Failed to fetch price data. Please try again."

\* the auto-refresh effect has [fetchTokens, isLoading] as dependencies: a
\* render with a new isLoading clears the interval and sets a new one
IntervalAfter(loading) == IF loading # t_isLoading THEN 0 ELSE t_sinceSet

\* fetchTokens up to its await: setIsLoading(true); setError(null)
StartFetchTokens ==
    /\ t_inFlight < MaxRuns
    /\ t_isLoading' = TRUE
    /\ t_error' = NoError
    /\ t_inFlight' = t_inFlight + 1
    /\ UNCHANGED t_tokens

\* refetch: fetchTokens called by the component
refetch ==
    /\ StartFetchTokens
    /\ t_sinceSet' = IntervalAfter(TRUE)
    /\ t_last' = TokensStep("refetch", TRUE, t_inFlight)
    /\ UNCHANGED OutsideTokens

\* the callback of setInterval(..., 30000): if (!isLoading) fetchTokens().
\* The callback reads the isLoading of the render that set the interval,
\* which is the current one.
autoRefreshTick ==
    /\ t_sinceSet >= RefreshInterval
    /\ IF ~t_isLoading
       THEN StartFetchTokens
       ELSE UNCHANGED <<t_tokens, t_isLoading, t_error, t_inFlight>>
    /\ t_sinceSet' = 0
    /\ t_last' = TokensStep("tick", ~t_isLoading, t_inFlight)
    /\ UNCHANGED OutsideTokens

\* a run's await resolves: setTokens(tokenData), then setIsLoading(false)
fetchTokensResolves(tokenData) ==
    /\ t_inFlight > 0
    /\ t_tokens' = tokenData
    /\ t_isLoading' = FALSE
    /\ t_inFlight' = t_inFlight - 1
    /\ t_sinceSet' = IntervalAfter(FALSE)
    /\ t_last' = TokensStep("resolved", FALSE, 0)
    /\ UNCHANGED t_error
    /\ UNCHANGED OutsideTokens

\* a run's await rejects: setError(err.message), then setIsLoading(false)
fetchTokensRejects ==
    /\ t_inFlight > 0
    /\ t_error' = FetchError
    /\ t_isLoading' = FALSE
    /\ t_inFlight' = t_inFlight - 1
    /\ t_sinceSet' = IntervalAfter(FALSE)
    /\ t_last' = TokensStep("rejected", FALSE, 0)
    /\ UNCHANGED t_tokens
    /\ UNCHANGED OutsideTokens

\* time passes, no further than the interval's next tick
TokensTimePasses ==
    /\ t_sinceSet < RefreshInterval
    /\ t_sinceSet' = Min(t_sinceSet + ClockStep, RefreshInterval)
    /\ t_last' = TokensStep("time", FALSE, 0)
    /\ UNCHANGED <<t_tokens, t_isLoading, t_error, t_inFlight>>
    /\ UNCHANGED OutsideTokens

TokensNext ==
    \/ refetch
    \/ autoRefreshTick
    \/ \E tokenData \in TokenData : fetchTokensResolves(tokenData)
    \/ fetchTokensRejects
    \/ TokensTimePasses

TokensSpec == Init /\ [][TokensNext]_vars

---------------------------------------------------------------------------
(* Properties *)

\* the unsigned-decimal form: digits and at most one "."
DecimalForm(s) ==
    /\ \A i \in 1..Len(s) : IsDigit(s[i]) \/ s[i] = "."
    /\ Cardinality({i \in 1..Len(s) : s[i] = "."}) <= 1

\* s reads as a number greater than 0
PositiveAmount(s) == IsNum(ParseFloat(s)) /\ ParseFloat(s).n > 0

BothTokens(f) == f.fromToken # NoToken /\ f.toToken # NoToken
SameCurrency(f) == BothTokens(f) /\ f.fromToken.currency = f.toToken.currency

\* the message of the first validation check that fails on f
FirstFailure(f) ==
    IF f.fromToken = NoToken THEN ErrNoFrom
    ELSE IF f.toToken = NoToken THEN ErrNoTo
    ELSE IF SameCurrency(f) THEN ErrSame
    ELSE ErrAmount

\* C1: executeSwap called while a token is missing, both tokens have the same
\* currency or fromAmount is no positive amount starts no commit: isLoading,
\* the form and the pending commits are unchanged and error becomes the
\* message of the first failing check.
C1_RejectedSwap ==
    [][(/\ lastCall'.op = "executeSwap"
        /\ executeSwap
        /\ ~BothTokens(formData) \/ SameCurrency(formData)
             \/ ~PositiveAmount(formData.fromAmount))
       => (/\ isLoading' = isLoading
           /\ formData' = formData
           /\ commits' = commits
           /\ error' = FirstFailure(formData))]_vars

\* a rejected executeSwap has acted on a session with two different tokens
C1_Witness ==
    /\ lastCall.op = "executeSwap" /\ ~lastCall.ok
    /\ error = ErrAmount
    /\ ~isLoading

\* C2: executeSwap on a Ready session that no other call interleaves: it sets
\* isLoading (false before) and clears error at once, both stay so while the
\* commit is pending, the commit completes, and at completion the form is
\* the initial one, error is null and isLoading is false.
C2_SoloSwap ==
    /\ [][(run # "started" /\ run' = "started")
          => (~isLoading /\ isLoading' /\ error' = NoError)]_vars
    /\ [](run = "started" => (isLoading /\ error = NoError /\ Len(commits) = 1))
    /\ [][(run = "started" /\ run' = "done")
          => (/\ formData' = InitialForm
              /\ error' = NoError
              /\ ~isLoading'
              /\ commits' = <<>>)]_vars
    /\ (run = "started" ~> run # "started")

\* a commit that nothing interleaved has completed
C2_Witness == run = "done" /\ formData = InitialForm /\ ~isLoading

\* C3: no call of a debounced function executes func; func is executed only
\* DebounceDelay after the last call and with that call's arguments, at most
\* once after it, and a pending timeout leads to that execution.
C3_Debounce ==
    /\ [][(\E args \in DebounceArgs : DebouncedCall(args[1], args[2]))
          => (d_ran' = d_ran /\ d_execs' = 0)]_vars
    /\ [][DebounceRun => (d_since = DebounceDelay /\ d_ran' = d_last)]_vars
    /\ [](d_execs <= 1)
    /\ (d_timer.pending ~> (~d_timer.pending /\ d_execs = 1))

\* a burst of several calls has been executed once, with the last arguments
C3_Witness ==
    /\ d_burst >= 2 /\ d_execs = 1 /\ ~d_timer.pending
    /\ d_ran = d_last /\ d_last # <<<<"2">>, Num(4, 1)>>

\* C4: every execution of the debounced recomputation uses the fromAmount
\* and the exchange rate the session holds when it runs, so none runs for a
\* pair that a later change has replaced.
C4_LatestPair ==
    [][(timeoutId.pending /\ fireDebounce)
       => (/\ timeoutId.amount = formData.fromAmount
           /\ timeoutId.rate = exchangeRate(formData))]_vars

\* the toAmount the session's fromAmount and tokens call for
DerivedToAmount(f) ==
    IF BothTokens(f) /\ TruthyNum(exchangeRate(f)) /\ f.fromAmount # <<>>
    THEN NumToString(calculateOutputAmount(f.fromAmount, exchangeRate(f)))
    ELSE <<>>

\* C5: once the last call was a setFromAmount that changed fromAmount and no
\* timeout is left to run, toAmount is the output amount of fromAmount at the
\* rate, as a string, and is empty when the rate is absent or fromAmount empty.
C5_SettledToAmount ==
    (/\ lastCall.op = "setFromAmount" /\ lastCall.ok /\ lastCall.changed
     /\ ~timeoutId.pending
     /\ commits = <<>>)
    => formData.toAmount = DerivedToAmount(formData)

\* C6: setFromAmount(s) sets fromAmount to s when s is empty or of the decimal
\* form, and otherwise changes nothing of the session and schedules nothing.
C6_SetFromAmountFilter ==
    [][\A s \in AmountInputs :
         (lastCall'.op = "setFromAmount" /\ setFromAmount(s))
         => IF s = <<>> \/ DecimalForm(s)
            THEN formData'.fromAmount = s
            ELSE /\ formData' = formData
                 /\ error' = error
                 /\ isLoading' = isLoading
                 /\ timeoutId' = timeoutId
                 /\ commits' = commits]_vars

\* a setFromAmount was ignored and the previous amount is retained
C6_Witness ==
    /\ lastCall.op = "setFromAmount" /\ ~lastCall.ok
    /\ formData.fromAmount = <<"2">>
    /\ timeoutId.pending

\* C7: swapTokens exchanges the tokens and the amounts in one step.
C7_SwapExchanges ==
    [][(lastCall'.op = "swapTokens" /\ swapTokens)
       => formData' = [fromToken |-> formData.toToken,
                       toToken |-> formData.fromToken,
                       fromAmount |-> formData.toAmount,
                       toAmount |-> formData.fromAmount]]_vars

\* C8: resetForm sets the form to its initial value and error to null and
\* leaves the rest of the session alone; called on a session a resetForm has
\* left behind it changes nothing.
C8_ResetForm ==
    /\ [][(lastCall'.op = "resetForm" /\ resetForm)
          => (/\ formData' = InitialForm
              /\ error' = NoError
              /\ isLoading' = isLoading
              /\ timeoutId' = timeoutId
              /\ commits' = commits)]_vars
    /\ [][(/\ lastCall.op = "resetForm" /\ lastCall'.op = "resetForm"
           /\ formData = InitialForm /\ error = NoError
           /\ resetForm)
          => (/\ formData' = formData
              /\ error' = error
              /\ isLoading' = isLoading
              /\ timeoutId' = timeoutId
              /\ commits' = commits)]_vars

\* resetForm has acted on a loading session with a recomputation pending
C8_Witness ==
    /\ lastCall.op = "resetForm"
    /\ formData = InitialForm /\ error = NoError
    /\ timeoutId.pending /\ isLoading

\* a call that mutates the form: a token setter, swapTokens, or an amount
\* setter given an accepted amount
FormMutation ==
    \/ /\ lastCall'.op = "setFromToken"
       /\ \E token \in TokenInputs : setFromToken(token)
    \/ /\ lastCall'.op = "setToToken"
       /\ \E token \in TokenInputs : setToToken(token)
    \/ /\ lastCall'.op = "setFromAmount"
       /\ \E s \in AmountInputs : (s = <<>> \/ DecimalForm(s)) /\ setFromAmount(s)
    \/ /\ lastCall'.op = "setToAmount"
       /\ \E s \in AmountInputs : (s = <<>> \/ DecimalForm(s)) /\ setToAmount(s)
    \/ /\ lastCall'.op = "swapTokens"
       /\ swapTokens

\* C9: a form mutation made while error is set leaves error null.
C9_MutationClearsError ==
    [][(error # NoError /\ FormMutation) => error' = NoError]_vars

\* an amount setter was called with error set, and error is null
C9_Witness ==
    /\ lastCall.op = "setToAmount" /\ lastCall.ok /\ lastCall.hadError
    /\ error = NoError

\* C10: isValidSwap is true exactly when both tokens are set, their
\* currencies differ and fromAmount passes isValidAmount.
C10_IsValidSwap ==
    validation(formData).isValid
    <=> (/\ BothTokens(formData)
         /\ formData.fromToken.currency # formData.toToken.currency
         /\ isValidAmount(formData.fromAmount))

\* the session holds two tokens of the same currency and a valid amount
C10_Witness ==
    /\ SameCurrency(formData)
    /\ isValidAmount(formData.fromAmount)
    /\ ~validation(formData).isValid

\* C11: validateSwapData returns the message of the first failing check in
\* the order fromToken present, toToken present, currencies differ, amount
\* valid, and isValid = true with no error exactly when all four pass.
C11_ValidationOrder ==
    u_out.fn = "validateSwapData" =>
        LET f == u_in.args[1]
            t == u_in.args[2]
            a == u_in.args[3]
            r == u_out.val
        IN  /\ f = NoToken => r = [isValid |-> FALSE, error |-> ErrNoFrom]
            /\ (f # NoToken /\ t = NoToken)
                 => r = [isValid |-> FALSE, error |-> ErrNoTo]
            /\ (f # NoToken /\ t # NoToken /\ f.currency = t.currency)
                 => r = [isValid |-> FALSE, error |-> ErrSame]
            /\ (f # NoToken /\ t # NoToken /\ f.currency # t.currency
                  /\ ~isValidAmount(a))
                 => r = [isValid |-> FALSE, error |-> ErrAmount]
            /\ r.isValid <=> (/\ f # NoToken /\ t # NoToken
                              /\ f.currency # t.currency /\ isValidAmount(a))
            /\ r.isValid => r.error = NoError

\* two checks fail and the message is that of the earlier one
C11_Witness ==
    /\ u_out.fn = "validateSwapData"
    /\ u_in.args[1] = ETH /\ u_in.args[2] = ETH /\ ~isValidAmount(u_in.args[3])
    /\ u_out.val.error = ErrSame

\* C16: calculateExchangeRate returns 0 when a token is null or its price is
\* not positive, and fromToken.price / toToken.price otherwise; the rate is
\* never negative.
C16_RateNeverNegative ==
    u_out.fn = "calculateExchangeRate" =>
        LET f == u_in.args[1]
            t == u_in.args[2]
        IN  /\ u_out.val.n >= 0
            /\ IF f = NoToken \/ t = NoToken THEN u_out.val = Zero
               ELSE IF f.price <= 0 \/ t.price <= 0 THEN u_out.val = Zero
               ELSE u_out.val = Num(f.price, t.price)

\* the samples of the feed that have currency c
SamplesOf(feed, c) == {j \in 1..Len(feed) : feed[j].currency = c}

\* C14: processTokenData returns exactly one Token for each currency of the
\* feed and none for any other, and each Token has the price and the date of
\* a sample of its currency that no sample of that currency is later than.
C14_LatestSamplePerCurrency ==
    u_out.fn = "processTokenData" =>
        LET feed == u_in.args[1]
            out == u_out.val
        IN  /\ \A j \in 1..Len(feed) :
                 Cardinality({i \in 1..Len(out) :
                                 out[i].currency = feed[j].currency}) = 1
            /\ \A i \in 1..Len(out) :
                 \E j \in SamplesOf(feed, out[i].currency) :
                    /\ out[i].price = feed[j].price
                    /\ out[i].lastUpdated = feed[j].date
                    /\ \A k \in SamplesOf(feed, out[i].currency) :
                          feed[k].date <= feed[j].date

\* a later sample with another price replaced the first one of its currency,
\* and a second currency is present
C14_Witness ==
    /\ u_out.fn = "processTokenData"
    /\ Len(u_in.args[1]) = 3 /\ Len(u_out.val) = 2
    /\ u_out.val[1].lastUpdated = 2
    /\ u_in.args[1][1].date = 1
    /\ u_out.val[1].price # u_in.args[1][1].price

\* 1 + 2 + ... + n, counted as the pairs (i, j) with 1 <= j <= i <= n
SumUpTo(n) == Cardinality({q \in (1..n) \X (1..n) : q[2] <= q[1]})

\* C20: for n >= 0 each of sum_to_n_a, sum_to_n_b and sum_to_n_c returns
\* 1 + 2 + ... + n, so the three return the same value.
C20_SumToN ==
    (u_out.fn \in {"sum_to_n_a", "sum_to_n_b", "sum_to_n_c"} /\ u_in.args[1] >= 0)
    => /\ u_out.val = SumUpTo(u_in.args[1])
       /\ sum_to_n_a(u_in.args[1]) = sum_to_n_b(u_in.args[1])
       /\ sum_to_n_b(u_in.args[1]) = sum_to_n_c(u_in.args[1])

\* the loop of sum_to_n_b has returned the sum for the largest argument
C20_Witness ==
    /\ u_out.fn = "sum_to_n_b"
    /\ u_in.args[1] = MaxN
    /\ u_out.val = sum_to_n_a(MaxN) /\ u_out.val > MaxN

\* C19: every formatter and validator returns a result for every value, a
\* number, a string, null or undefined, and never throws.
C19_FormattersTotal ==
    u_out.fn \in Formatters => ~u_out.thrown

\* an entry exists and its age is less than 30000 ms
FreshEntry == p_cache.present /\ p_now - p_cache.timestamp < CACHE_DURATION

\* C12: a getTokens call made while an entry younger than 30000 ms exists
\* issues no fetch and returns the entry's data; a call made with no entry or
\* with an entry aged 30000 ms or more issues exactly one fetch.
C12_CacheTTL ==
    /\ [][\A i \in 1..MaxCalls :
            getTokens(i)
            => IF FreshEntry
               THEN /\ p_calls'[i].pc = "returned"
                    /\ p_calls'[i].result = p_cache.data
                    /\ p_calls'[i].fetches = 0
               ELSE /\ p_calls'[i].pc = "fetching"
                    /\ p_calls'[i].fetches = 1]_vars
    /\ [][\A i \in 1..MaxCalls :
            p_calls[i].pc = "fetching" => p_calls'[i].fetches = 1]_vars

\* a call found an entry aged CACHE_DURATION or more and is fetching
C12_Witness ==
    \E i \in 1..MaxCalls :
        /\ p_calls[i].pc = "fetching"
        /\ p_calls[i].cached.present
        /\ p_now - p_calls[i].cached.timestamp >= CACHE_DURATION
        /\ p_now - p_calls[i].cached.timestamp <= CACHE_DURATION + 1

\* C13: when the fetch of a call fails, the call returns the data of the
\* cache entry that exists at that moment, and fails only when none exists,
\* whatever other calls are in flight.
C13_FallbackOnFailure ==
    [][\A i \in 1..MaxCalls :
         fetchFails(i)
         => IF p_cache.present
            THEN p_calls'[i].pc = "returned" /\ p_calls'[i].result = p_cache.data
            ELSE p_calls'[i].pc = "thrown"]_vars

\* C15: a call that starts with the cache missing or expired issues its own
\* fetch also while another call is fetching; every fetch that succeeds
\* writes the cache, so the entry left is that of the fetch completed last.
C15_LastWriteWins ==
    /\ [][\A i \in 1..MaxCalls :
            (/\ getTokens(i)
             /\ ~FreshEntry
             /\ \E j \in 1..MaxCalls : j # i /\ p_calls[j].pc = "fetching")
            => (p_calls'[i].pc = "fetching" /\ p_calls'[i].fetches = 1)]_vars
    /\ [][\A i \in 1..MaxCalls : \A priceData \in FeedResults :
            fetchSucceeds(i, priceData)
            => (/\ p_cache' = Entry(processTokenData(priceData), p_now)
                /\ p_calls'[i].result = processTokenData(priceData))]_vars

\* two calls started on the same missing entry and both fetched; the one
\* that started first completed last and its tokens are in the cache
C15_Witness ==
    \E i, j \in 1..MaxCalls :
        /\ i # j
        /\ p_calls[i].pc = "returned" /\ p_calls[j].pc = "returned"
        /\ p_calls[i].fetches = 1 /\ p_calls[j].fetches = 1
        /\ ~p_calls[i].cached.present /\ ~p_calls[j].cached.present
        /\ p_calls[i].first /\ ~p_calls[j].first
        /\ p_lastWrite = i
        /\ p_calls[i].result # p_calls[j].result
        /\ p_cache.data = p_calls[i].result

\* the rate of f is a number greater than 0
PositiveRate(f) == IsNum(exchangeRate(f)) /\ exchangeRate(f).n > 0

C18_AmountsDecimalForm ==
    /\ DecimalForm(formData.fromAmount)
    /\ DecimalForm(formData.toAmount)

\* C30: for every negative integer n the three implementations return the
\* same value, the empty sum 0.
C30_SumToNNegative ==
    (u_out.fn \in {"sum_to_n_a", "sum_to_n_b", "sum_to_n_c"} /\ u_in.args[1] < 0)
    => /\ u_out.val = 0
       /\ sum_to_n_a(u_in.args[1]) = sum_to_n_b(u_in.args[1])
       /\ sum_to_n_b(u_in.args[1]) = sum_to_n_c(u_in.args[1])

\* the text Number.prototype.toString gives for NaN and for Infinity
NaNText == <<"N", "a", "N">>
InfinityText == <<"I", "n", "f", "i", "n", "i", "t", "y">>

\* the rate of f is absent (a token unset) or 0 (a token of price 0)
NoRate(f) == exchangeRate(f) = NullNum \/ exchangeRate(f) = Zero

\* C23: when the exchange rate is absent or 0, an accepted setToAmount changes
\* only toAmount and leaves fromAmount unchanged; fromAmount is never NaN or
\* Infinity.
C23_ZeroRateSetToAmount ==
    /\ [](formData.fromAmount \notin {NaNText, InfinityText})
    /\ [][\A x \in ZeroPriceAmounts :
            (/\ lastCall'.op = "setToAmount"
             /\ NoRate(formData)
             /\ (x = <<>> \/ MatchesDecimalPattern(x))
             /\ setToAmount(x))
            => formData' = [formData EXCEPT !.toAmount = x]]_vars

\* setToAmount has been accepted with both tokens set, one of price 0, and
\* fromAmount holds what was typed before
C23_Witness ==
    /\ lastCall.op = "setToAmount"
    /\ lastCall.ok
    /\ BothTokens(formData)
    /\ exchangeRate(formData) = Zero
    /\ formData.toAmount = <<"8">>
    /\ formData.fromAmount = <<"2">>

\* C25: at most one swap commit is pending at any time, and isLoading is
\* true in every state in which a commit is pending.
C25_SingleCommit ==
    /\ Len(commits) <= 1
    /\ commits # <<>> => isLoading

\* the session as a reset has left it, with no user action since: resetForm
\* was the last call, or a swap that nothing interleaved has completed
AfterReset == lastCall.op = "resetForm" \/ run = "done"

\* C26: after resetForm, and after the reset that ends a successful
\* executeSwap, the four form fields keep their initial values until the next
\* user action; no recomputation scheduled earlier writes into them.
C26_ResetStays ==
    /\ [](AfterReset => formData = InitialForm)
    /\ [][(AfterReset /\ fireDebounce) => formData' = InitialForm]_vars

\* C27: in every state with no debounced recomputation pending, toAmount is
\* empty when fromAmount is empty or there is no positive rate, and otherwise
\* is calculateOutputAmount(fromAmount, rate) for the current tokens.
C27_QuiescentToAmount ==
    (~timeoutId.pending /\ commits = <<>> /\ lastCall.op # "executeSwap")
    => formData.toAmount
         = (IF PositiveRate(formData) /\ formData.fromAmount # <<>>
            THEN NumToString(calculateOutputAmount(formData.fromAmount,
                                                   exchangeRate(formData)))
            ELSE <<>>)

\* C28: whenever executeSwap starts a commit, toAmount is non-empty and is
\* calculateOutputAmount(fromAmount, rate) for the current tokens, with a
\* rate greater than 0.
C28_CommitHasOutput ==
    [][(/\ lastCall'.op = "executeSwap"
        /\ validation(formData).isValid
        /\ executeSwap)
       => (/\ formData.toAmount # <<>>
           /\ PositiveRate(formData)
           /\ formData.toAmount
                = NumToString(calculateOutputAmount(formData.fromAmount,
                                                    exchangeRate(formData))))]_vars

\* C29: an error set by a rejected executeSwap stays set until the next user
\* call; no step of a timer alone, a debounced recomputation in particular,
\* clears it.
C29_ErrorSticky ==
    [][(/\ lastCall.op = "executeSwap" /\ ~lastCall.ok
        /\ error # NoError
        /\ lastCall' = lastCall)
       => error' = error]_vars

\* C22: a getTokens call whose fetch fails leaves the cache entry as it was,
\* so a stale entry stays stale and the next call fetches again; a call whose
\* fetch succeeds sets the entry to the deduplicated tokens with the time at
\* which the fetch completed.
C22_CacheFrame ==
    /\ [][\A i \in 1..MaxCalls :
            fetchFails(i) => (p_cache' = p_cache /\ (~FreshEntry => ~FreshEntry'))]_vars
    /\ [][\A i \in 1..MaxCalls :
            (getTokens(i) /\ p_cache.present /\ ~FreshEntry)
            => p_calls'[i].pc = "fetching"]_vars
    /\ [][\A i \in 1..MaxCalls : \A priceData \in FeedResults :
            fetchSucceeds(i, priceData)
            => (/\ p_cache'.present
                /\ p_cache'.data = processTokenData(priceData)
                /\ p_cache'.timestamp = p_now)]_vars

\* a fetch that took time has written the entry with its completion time,
\* and a fetch of another call has failed since without removing the entry
C22_Witness ==
    \E i, j \in 1..MaxCalls :
        /\ p_calls[i].pc = "returned" /\ p_calls[i].fetches = 1
        /\ p_lastWrite = i
        /\ p_cache.present
        /\ p_cache.data = p_calls[i].result
        /\ p_cache.timestamp > p_calls[i].started
        /\ p_calls[j].pc = "thrown"

\* C24: the auto-refresh tick starts a fetch only when isLoading is false and
\* never while another fetchTokens run is in flight; every fetchTokens run,
\* resolved or rejected, ends with isLoading = false.
C24_RefreshExclusive ==
    /\ [][(t_last'.op = "tick" /\ t_last'.started /\ autoRefreshTick)
          => (~t_isLoading /\ t_inFlight = 0)]_vars
    /\ [][(fetchTokensRejects \/ \E tokenData \in TokenData :
                                    fetchTokensResolves(tokenData))
          => ~t_isLoading']_vars

\* the blockchains priorityMap has an entry for
KnownBlockchains == {"Osmosis", "Ethereum", "Arbitrum", "Zilliqa", "Neo"}

\* how many times balance b occurs in the sequence s
Occurrences(s, b) == Cardinality({i \in 1..Len(s) : s[i] = b})

\* C21: sortedBalances holds exactly the input balances on a known blockchain
\* (the others have priority -99) with an amount above 0, by descending
\* priority and, at equal priority, by descending amount.
C21_SortedBalances ==
    u_out.fn = "sortedBalances" =>
        LET balances == u_in.args[1]
            out == u_out.val
        IN  /\ \A b \in BalanceInputs :
                 Occurrences(out, b)
                   = (IF b.blockchain \in KnownBlockchains /\ b.amount > 0
                      THEN Occurrences(balances, b) ELSE 0)
            /\ \A b \in BalanceInputs :
                 b.blockchain \notin KnownBlockchains
                 => getPriority(b.blockchain) = -99
            /\ \A i, j \in 1..Len(out) :
                 i < j =>
                   \/ getPriority(out[i].blockchain) > getPriority(out[j].blockchain)
                   \/ /\ getPriority(out[i].blockchain) = getPriority(out[j].blockchain)
                      /\ out[i].amount >= out[j].amount

\* a balance was dropped, and two balances on different chains of equal
\* priority came out in the order of their amounts, the reverse of the input's
C21_Witness ==
    /\ u_out.fn = "sortedBalances"
    /\ Len(u_in.args[1]) = 3 /\ Len(u_out.val) = 2
    /\ u_out.val[1].blockchain # u_out.val[2].blockchain
    /\ getPriority(u_out.val[1].blockchain) = getPriority(u_out.val[2].blockchain)
    /\ u_out.val[1].amount > u_out.val[2].amount
    /\ u_in.args[1][3] = u_out.val[1]
    /\ u_in.args[1][1] = u_out.val[2]

============================================================================
